---- MODULE Spec2Model ----
(***************************************************************************)
(* Customer-Call-Analyzer: the call-analysis pipeline of best.py /         *)
(* test2.py / main.py, the call_reports table they share, and the          *)
(* maintenance script data.py.                                             *)
(*                                                                         *)
(* A text is a sequence of one-character strings.  The store is the        *)
(* SQLite file call_analysis.db: the call_reports table (its column set    *)
(* and its rows keyed by rowid) and its sqlite_sequence counter.           *)
(***************************************************************************)
EXTENDS Integers, Sequences, FiniteSets, TLC

(***************************************************************************)
(* Bounds of the model.                                                    *)
(***************************************************************************)
MaxAffix == 1    \* length of the text around the JSON block
MaxName == 2     \* length of a name inside the JSON block

Min(S) == CHOOSE x \in S : \A y \in S : x <= y
Max(S) == CHOOSE x \in S : \A y \in S : x >= y

(***************************************************************************)
(* Texts.                                                                  *)
(***************************************************************************)
Unknown == <<"U", "n", "k", "n", "o", "w", "n">>
AgentKey == <<"a", "g", "e", "n", "t", "_", "n", "a", "m", "e">>
CustomerKey == <<"c", "u", "s", "t", "o", "m", "e", "r", "_", "n", "a", "m", "e">>

\* str.strip(): the characters Python strips that the alphabet contains
Whitespace == {" ", "\n"}

strip(s) ==
    LET keep == {i \in 1..Len(s) : s[i] \notin Whitespace}
    IN IF keep = {} THEN <<>> ELSE SubSeq(s, Min(keep), Max(keep))

\* what '.' matches under re.DOTALL: every character, the newline included
DotNoNewline(c) == c # "\n"
Dot(c) == TRUE

\* re.search(r'\{.*?\}', s, re.DOTALL): the leftmost '{' from which a match
\* exists, extended to the nearest '}' the lazy '.*?' can reach
re_search(s) ==
    LET ends(i) == {j \in (i+1)..Len(s) :
                       /\ s[j] = "}"
                       /\ \A k \in (i+1)..(j-1) : Dot(s[k])}
        starts == {i \in 1..Len(s) : s[i] = "{" /\ ends(i) # {}}
    IN IF starts = {}
       THEN [found |-> FALSE, start |-> 0, end |-> 0]
       ELSE [found |-> TRUE, start |-> Min(starts), end |-> Min(ends(Min(starts)))]

(***************************************************************************)
(* json.loads on the JSON the alphabet can spell: objects, strings         *)
(* (no escapes; a raw control character is rejected), null and digits.     *)
(***************************************************************************)
JsonWs == {" ", "\n"}
Digits == {"7"}
NullLit == <<"n", "u", "l", "l">>

Fail == [ok |-> FALSE, t |-> "none", v |-> <<>>, next |-> 0]

SkipWs(s, i) ==
    LET rest == {j \in i..Len(s) : s[j] \notin JsonWs}
    IN IF rest = {} THEN Len(s) + 1 ELSE Min(rest)

ParseString(s, i) ==
    IF i > Len(s) \/ s[i] # "\"" THEN Fail
    ELSE LET close == {j \in (i+1)..Len(s) : s[j] = "\""}
         IN IF close = {} THEN Fail
            ELSE LET j == Min(close)
                 IN IF \E k \in (i+1)..(j-1) : s[k] = "\n" THEN Fail
                    ELSE [ok |-> TRUE, t |-> "str", v |-> SubSeq(s, i+1, j-1), next |-> j+1]

ParseNumber(s, i) ==
    LET stop == {j \in i..Len(s) : s[j] \notin Digits}
        e == IF stop = {} THEN Len(s) + 1 ELSE Min(stop)
    IN IF e = i THEN Fail ELSE [ok |-> TRUE, t |-> "num", v |-> <<>>, next |-> e]

ParseNull(s, i) ==
    IF i + 3 <= Len(s) /\ SubSeq(s, i, i+3) = NullLit
    THEN [ok |-> TRUE, t |-> "null", v |-> <<>>, next |-> i+4]
    ELSE Fail

RECURSIVE ParseValue(_, _)
RECURSIVE ParseMembers(_, _, _)

\* an object from its '{' at i; dict maps each key to its [t, v] value
ParseObject(s, i) ==
    LET j == SkipWs(s, i+1)
    IN IF j > Len(s) THEN [ok |-> FALSE, dict |-> <<>>, next |-> 0]
       ELSE IF s[j] = "}" THEN [ok |-> TRUE, dict |-> <<>>, next |-> j+1]
       ELSE ParseMembers(s, j, <<>>)

ParseMembers(s, i, acc) ==
    LET k == ParseString(s, i)
        c == SkipWs(s, k.next)
        v == ParseValue(s, SkipWs(s, c+1))
        d == SkipWs(s, v.next)
        acc2 == [x \in DOMAIN acc \cup {k.v} |->
                    IF x = k.v THEN [t |-> v.t, v |-> v.v] ELSE acc[x]]
        bad == [ok |-> FALSE, dict |-> <<>>, next |-> 0]
    IN IF ~k.ok THEN bad
       ELSE IF c > Len(s) \/ s[c] # ":" THEN bad
       ELSE IF ~v.ok THEN bad
       ELSE IF d > Len(s) THEN bad
       ELSE IF s[d] = "}" THEN [ok |-> TRUE, dict |-> acc2, next |-> d+1]
       ELSE IF s[d] = "," THEN ParseMembers(s, SkipWs(s, d+1), acc2)
       ELSE bad

ParseValue(s, i) ==
    IF i > Len(s) THEN Fail
    ELSE IF s[i] = "\"" THEN ParseString(s, i)
    ELSE IF s[i] = "{"
         THEN LET o == ParseObject(s, i)
              IN IF o.ok THEN [ok |-> TRUE, t |-> "obj", v |-> <<>>, next |-> o.next]
                 ELSE Fail
    ELSE IF s[i] \in Digits THEN ParseNumber(s, i)
    ELSE ParseNull(s, i)

\* json.loads(s): one value with nothing but whitespace around it; ok = FALSE
\* stands for json.JSONDecodeError
json_loads(s) ==
    LET i == SkipWs(s, 1)
        val == ParseValue(s, i)
        obj == IF val.ok /\ val.t = "obj" THEN ParseObject(s, i).dict ELSE <<>>
    IN IF val.ok /\ SkipWs(s, val.next) > Len(s)
       THEN [ok |-> TRUE, t |-> val.t, dict |-> obj]
       ELSE [ok |-> FALSE, t |-> "none", dict |-> <<>>]

\* dict.get(key, "Unknown")
Get(dict, key) ==
    IF key \in DOMAIN dict THEN dict[key] ELSE [t |-> "str", v |-> Unknown]

\* agent_name = name_data.get(...).strip(); customer_name = ....strip()
\* .strip() exists on str only: any other value raises AttributeError
NamesFromDict(dict, warn) ==
    LET a == Get(dict, AgentKey)
        c == Get(dict, CustomerKey)
    IN IF a.t # "str"
       THEN [agent_name |-> Unknown, customer_name |-> Unknown,
             warning |-> warn, raised |-> "AttributeError"]
       ELSE IF c.t # "str"
       THEN [agent_name |-> strip(a.v), customer_name |-> Unknown,
             warning |-> warn, raised |-> "AttributeError"]
       ELSE [agent_name |-> strip(a.v), customer_name |-> strip(c.v),
             warning |-> warn, raised |-> "none"]

UnknownNames(warn) ==
    [agent_name |-> Unknown, customer_name |-> Unknown,
     warning |-> warn, raised |-> "none"]

\* best.py 124-134, test2.py 113-124
ExtractNames(content) ==
    LET m == re_search(content)
        d == json_loads(SubSeq(content, m.start, m.end))
    IN IF ~m.found THEN UnknownNames(FALSE)
       ELSE IF ~d.ok THEN UnknownNames(TRUE)
       ELSE NamesFromDict(d.dict, FALSE)

\* main.py 81-90: the whole response is parsed, a decode error is passed over
ExtractNamesMain(content) ==
    LET d == json_loads(content)
    IN IF ~d.ok THEN UnknownNames(FALSE)
       ELSE IF d.t # "obj"
       THEN [agent_name |-> Unknown, customer_name |-> Unknown,
             warning |-> FALSE, raised |-> "AttributeError"]
       ELSE NamesFromDict(d.dict, FALSE)

(***************************************************************************)
(* Model responses for name extraction.                                    *)
(***************************************************************************)
RECURSIVE SeqsUpTo(_, _)
SeqsUpTo(S, n) ==
    IF n = 0 THEN {<<>>}
    ELSE LET shorter == SeqsUpTo(S, n - 1)
         IN shorter \cup {Append(s, c) : s \in shorter, c \in S}

Quote(s) == <<"\"">> \o s \o <<"\"">>

\* {"agent_name": A,<sep>"customer_name": C}
NameJson(A, C, sep) ==
    <<"{">> \o Quote(AgentKey) \o <<":", " ">> \o Quote(A) \o <<",">> \o sep
            \o Quote(CustomerKey) \o <<":", " ">> \o Quote(C) \o <<"}">>

AffixChars == {"x", "{", "}"}
NameChars == {"S", " ", "}"}
Affixes == SeqsUpTo(AffixChars, MaxAffix)
Suffixes == {<<>>, <<"x">>, <<"}">>}
GivenNames == SeqsUpTo(NameChars, MaxName)
Separators == {<<" ">>, <<"\n">>}

\* responses that are not the well-formed object
OtherBodies ==
    { <<>>,
      <<"x">>,
      <<"{", "x", "}">>,
      <<"{", "}">>,
      <<"7">>,
      NullLit,
      Quote(<<"S">>),
      <<"{">> \o Quote(AgentKey) \o <<":">> \o Quote(<<"S">>) \o <<"}">>,
      <<"{">> \o Quote(AgentKey) \o <<":">> \o NullLit \o <<"}">>,
      <<"{">> \o Quote(CustomerKey) \o <<":">> \o <<"7">> \o <<"}">>,
      <<"{">> \o Quote(AgentKey) \o <<":">> \o <<"{", "}", "}">>,
      <<"{">> \o Quote(AgentKey) \o <<":">> \o Quote(<<"S">>) }

Givens ==
    [kind : {"wellformed"}, pre : Affixes, suf : Suffixes,
     A : GivenNames, C : GivenNames, sep : Separators, body : {<<>>}]
    \cup
    [kind : {"other"}, pre : Affixes, suf : Suffixes,
     A : {<<>>}, C : {<<>>}, sep : {<<>>}, body : OtherBodies]

TextOf(g) ==
    IF g.kind = "wellformed"
    THEN g.pre \o NameJson(g.A, g.C, g.sep) \o g.suf
    ELSE g.pre \o g.body \o g.suf

NoGiven ==
    [kind |-> "none", pre |-> <<>>, suf |-> <<>>,
     A |-> <<>>, C |-> <<>>, sep |-> <<>>, body |-> <<>>]
NoResult ==
    [agent_name |-> <<>>, customer_name |-> <<>>,
     warning |-> FALSE, raised |-> "none"]

(***************************************************************************)
(* The store and the scripts that run against it.                          *)
(***************************************************************************)
Procs == {1, 2}    \* browser sessions, each re-running one of the scripts
MaxRuns == 2       \* script runs in total
Scripts == {"best", "main"}    \* test2.py runs as best.py does

Yes == <<"Y", "e", "s">>
No == <<"N", "o">>
Sam == <<"S", "a", "m">>
Alice == <<"A", "l", "i", "c", "e">>
Positive == <<"P", "o", "s", "i", "t", "i", "v", "e">>
Negative == <<"N", "e", "g", "a", "t", "i", "v", "e">>
Neutral == <<"N", "e", "u", "t", "r", "a", "l">>
\* SQL NULL: no text
Null == <<"NULL">>

\* what the LLM may answer to each prompt
NameResponses ==
    { <<"x", " ">> \o NameJson(Sam \o <<" ">>, Alice, <<"\n">>),
      <<"x">>,
      <<"{", "x", "}">>,
      <<"{">> \o Quote(AgentKey) \o <<":">> \o NullLit \o <<"}">> }
SatisfactionResponses == { <<" ">> \o Yes \o <<"\n">>, No, <<"M", "a", "y", "b", "e">> }
ImprovementResponses == { <<"s", "l", "o", "w", "\n">> }
SummaryResponses == { <<"o", "k">> }
SentimentResponses == { Positive \o <<"\n">>, <<"M", "i", "x", "e", "d">> }
AttentionResponses == { <<"b", "i", "l", "l">> }
FileNames == {"call.wav"}

BestColumns ==
    {"id", "customer_name", "agent_name", "customer_satisfied", "company_improvements"}
MainColumns ==
    {"id", "customer_service_department", "agent_name", "customer_name", "summary",
     "overall_sentiment", "customer_satisfied", "main_attention_areas"}
InsertColumns ==
    {"customer_name", "agent_name", "customer_satisfied", "company_improvements"}
SelectColumns == InsertColumns \cup {"id"}
MainInsertColumns == MainColumns \ {"id"}
MainSelectColumns ==
    {"id", "agent_name", "customer_name", "overall_sentiment", "customer_satisfied",
     "main_attention_areas"}

NoError == [type |-> "none", at |-> "none"]

\* the variables of one script run, before the script has set any
NoSession ==
    [existing_columns |-> {}, filename |-> "none", summary |-> <<>>,
     agent_name |-> <<>>, customer_name |-> <<>>, warned |-> FALSE,
     overall_sentiment |-> <<>>, customer_satisfied |-> <<>>,
     company_improvements |-> <<>>, main_attention_areas |-> <<>>, data |-> <<>>]

VARIABLES
    given,        \* how the response under extraction was put together
    content,      \* name_result.content
    extractedBy,  \* "none", or the script whose extraction ran
    extracted,    \* agent_name, customer_name, st.warning shown, exception
    tableExists,  \* call_reports exists in call_analysis.db
    columns,      \* its column names
    rows,         \* rowid -> column -> value (run: the script run that wrote it)
    seq,          \* sqlite_sequence.seq of call_reports, 0 when it has no entry
    temp_audio,   \* files under temp_audio/
    pc,           \* where each session's script run stands
    script,       \* the script the session runs
    run,          \* number of the session's current script run
    session,      \* the script's variables in each session
    inflight,     \* LLM calls of the run issued and not yet returned
    issued,       \* LLM calls of the run in the order they were issued
    error,        \* the exception that ended the session's script run
    setups,       \* best.py schema setups each session has been through
    nruns,        \* script runs started
    assigned      \* every <<id, run>> an INSERT has produced

xvars == <<given, content, extractedBy, extracted>>
store == <<tableExists, columns, rows, seq>>
calls == <<inflight, issued>>
svars == <<tableExists, columns, rows, seq, temp_audio, pc, script, run, session,
           inflight, issued, error, setups, nruns, assigned>>
vars == <<given, content, extractedBy, extracted, tableExists, columns, rows, seq,
          temp_audio, pc, script, run, session, inflight, issued, error, setups,
          nruns, assigned>>

InitStore ==
    /\ tableExists = FALSE
    /\ columns = {}
    /\ rows = <<>>
    /\ seq = 0
    /\ temp_audio = {}
    /\ pc = [p \in Procs |-> "idle"]
    /\ script = [p \in Procs |-> "best"]
    /\ run = [p \in Procs |-> 0]
    /\ session = [p \in Procs |-> NoSession]
    /\ inflight = [p \in Procs |-> {}]
    /\ issued = [p \in Procs |-> <<>>]
    /\ error = [p \in Procs |-> NoError]
    /\ setups = [p \in Procs |-> 0]
    /\ nruns = 0
    /\ assigned = {}

InitNoExtract ==
    /\ given = NoGiven
    /\ content = <<>>
    /\ extractedBy = "none"
    /\ extracted = NoResult

(***************************************************************************)
(* SQLite: what the statements of the scripts do to call_reports.          *)
(***************************************************************************)
\* id INTEGER PRIMARY KEY AUTOINCREMENT: one more than the largest rowid the
\* table has ever held, which sqlite_sequence remembers
NextRowidNoIncrement == Max({seq} \cup DOMAIN rows)
NextRowid == Max({seq} \cup DOMAIN rows) + 1

\* CHECK(customer_satisfied IN ('Yes', 'No')), in both CREATE TABLE statements;
\* a NULL passes a CHECK
CheckNothing(v) == TRUE
CheckSatisfied(v) == v \in {Yes, No, Null}

\* CHECK(overall_sentiment IN ('Positive', 'Negative', 'Neutral')), main.py
CheckSentiment(v) == v \in {Positive, Negative, Neutral, Null}

\* the value a column takes when the INSERT does not name it
Default(c) == IF c \in {"customer_name", "agent_name"} THEN Unknown ELSE Null

\* the stored row of an INSERT of vals into a table with columns cols
NewRow(cols, vals, r) ==
    [c \in (cols \ {"id"}) \cup {"run"} |->
        IF c = "run" THEN r
        ELSE IF c \in DOMAIN vals THEN vals[c]
        ELSE Default(c)]

\* ALTER TABLE ... ADD COLUMN col TEXT: every stored row gets col, NULL
RecreateTable(r, col) == <<>>
AddColumn(r, col) ==
    [i \in DOMAIN r |->
        [c \in DOMAIN r[i] \cup {col} |-> IF c \in DOMAIN r[i] THEN r[i][c] ELSE Null]]

\* SELECT id, customer_name, agent_name, customer_satisfied, company_improvements
\* FROM call_reports: a scan of the table r in rowid order
ReportTuple(r, i) ==
    [id |-> i,
     customer_name |-> r[i].customer_name,
     agent_name |-> r[i].agent_name,
     customer_satisfied |-> r[i].customer_satisfied,
     company_improvements |-> r[i].company_improvements]

RECURSIVE ScanDescending(_, _)
ScanDescending(r, ids) ==
    IF ids = {} THEN <<>>
    ELSE <<ReportTuple(r, Max(ids))>> \o ScanDescending(r, ids \ {Max(ids)})

RECURSIVE Scan(_, _)
Scan(r, ids) ==
    IF ids = {} THEN <<>>
    ELSE <<ReportTuple(r, Min(ids))>> \o Scan(r, ids \ {Min(ids)})

SelectAll(r) == Scan(r, DOMAIN r)

\* main.py: SELECT id, agent_name, customer_name, overall_sentiment,
\* customer_satisfied, main_attention_areas FROM call_reports
MainTuple(r, i) ==
    [id |-> i,
     agent_name |-> r[i].agent_name,
     customer_name |-> r[i].customer_name,
     overall_sentiment |-> r[i].overall_sentiment,
     customer_satisfied |-> r[i].customer_satisfied,
     main_attention_areas |-> r[i].main_attention_areas]

RECURSIVE MainScan(_, _)
MainScan(r, ids) ==
    IF ids = {} THEN <<>>
    ELSE <<MainTuple(r, Min(ids))>> \o MainScan(r, ids \ {Min(ids)})

MainSelectAll(r) == MainScan(r, DOMAIN r)

\* os.remove(f)
NotRemoved(files, f) == files
Removed(files, f) == files \ {f}

\* llm(...) blocks: the call has returned when the next statement runs
FireAndForget(pending, returned) == pending
Blocking(pending, returned) == pending \ {returned}

\* the call `returned` is back and the call `next` goes out
IssueCall(p, returned, next) ==
    /\ inflight' = [inflight EXCEPT ![p] = Blocking(@, returned) \cup {next}]
    /\ issued' = [issued EXCEPT ![p] = Append(@, next)]

\* the call `returned` is back and a statement other than an LLM call follows
ReturnCall(p, returned) ==
    /\ inflight' = [inflight EXCEPT ![p] = Blocking(@, returned)]
    /\ UNCHANGED issued

\* an exception nothing catches: the script run ends, its variables are gone
Abort(p, type) ==
    /\ pc' = [pc EXCEPT ![p] = "failed"]
    /\ error' = [error EXCEPT ![p] = [type |-> type, at |-> pc[p]]]
    /\ session' = [session EXCEPT ![p] = NoSession]
    /\ inflight' = [inflight EXCEPT ![p] = {}]
    /\ issued' = [issued EXCEPT ![p] = <<>>]

Goto(p, to) ==
    /\ pc' = [pc EXCEPT ![p] = to]
    /\ UNCHANGED error

(***************************************************************************)
(* One script run in session p.  Streamlit runs the script from its first  *)
(* line on every interaction.                                              *)
(***************************************************************************)
StartRun(p) ==
    /\ pc[p] \in {"idle", "done", "failed"}
    /\ nruns < MaxRuns
    /\ nruns' = nruns + 1
    /\ run' = [run EXCEPT ![p] = nruns + 1]
    /\ \E sc \in Scripts : script' = [script EXCEPT ![p] = sc]
    /\ pc' = [pc EXCEPT ![p] = "create"]
    /\ error' = [error EXCEPT ![p] = NoError]
    /\ session' = [session EXCEPT ![p] = NoSession]
    /\ UNCHANGED <<xvars, store, temp_audio, calls, setups, assigned>>

\* CREATE TABLE IF NOT EXISTS call_reports (...), with the script's columns;
\* main.py goes on to its page, best.py to update_database_schema
create_database(p) ==
    /\ pc[p] = "create"
    /\ IF tableExists
       THEN UNCHANGED <<tableExists, columns>>
       ELSE /\ tableExists' = TRUE
            /\ columns' = IF script[p] = "main" THEN MainColumns ELSE BestColumns
    /\ Goto(p, IF script[p] = "main" THEN "page" ELSE "pragma")
    /\ UNCHANGED <<xvars, rows, seq, temp_audio, script, run, session, calls, setups,
                   nruns, assigned>>

\* update_database_schema, first statement: PRAGMA table_info(call_reports),
\* and the test on the column list it returned
SchemaAlwaysAlters(cols) == TRUE
SchemaMissesColumn(cols) == "company_improvements" \notin cols

pragma_table_info(p) ==
    /\ pc[p] = "pragma"
    /\ IF SchemaMissesColumn(columns)
       THEN /\ session' = [session EXCEPT ![p].existing_columns = columns]
            /\ Goto(p, "alter")
            /\ UNCHANGED setups
       ELSE /\ Goto(p, "page")
            /\ setups' = [setups EXCEPT ![p] = @ + 1]
            /\ UNCHANGED session
    /\ UNCHANGED <<xvars, store, temp_audio, script, run, calls, nruns, assigned>>

\* update_database_schema, second statement:
\* ALTER TABLE call_reports ADD COLUMN company_improvements TEXT
\* SQLite rejects it with OperationalError (duplicate column name) when the
\* column is there by now; nothing catches that
alter_table(p) ==
    /\ pc[p] = "alter"
    /\ setups' = [setups EXCEPT ![p] = @ + 1]
    /\ IF "company_improvements" \in columns
       THEN /\ Abort(p, "OperationalError")
            /\ UNCHANGED <<columns, rows>>
       ELSE /\ columns' = columns \cup {"company_improvements"}
            /\ rows' = AddColumn(rows, "company_improvements")
            /\ session' = [session EXCEPT ![p].existing_columns = {}]
            /\ Goto(p, "page")
            /\ UNCHANGED calls
    /\ UNCHANGED <<xvars, tableExists, seq, temp_audio, script, run, nruns, assigned>>

\* page == "Home", nothing uploaded: the script ends
HomeIdle(p) ==
    /\ pc[p] = "page"
    /\ Goto(p, "done")
    /\ UNCHANGED <<xvars, store, temp_audio, script, run, session, calls, setups,
                   nruns, assigned>>

\* page == "Reports": the script's SELECT, which names the script's columns
ReportsPage(p) ==
    /\ pc[p] = "page"
    /\ IF script[p] = "main"
       THEN IF MainSelectColumns \subseteq columns
            THEN /\ session' = [session EXCEPT ![p].data = MainSelectAll(rows)]
                 /\ Goto(p, "done")
                 /\ UNCHANGED calls
            ELSE Abort(p, "OperationalError")
       ELSE IF SelectColumns \subseteq columns
            THEN /\ session' = [session EXCEPT ![p].data = SelectAll(rows)]
                 /\ Goto(p, "done")
                 /\ UNCHANGED calls
            ELSE Abort(p, "OperationalError")
    /\ UNCHANGED <<xvars, store, temp_audio, script, run, setups, nruns, assigned>>

\* page == "Home" with an uploaded file: it is written under temp_audio and
\* model.transcribe(filename) is called
Upload(p) ==
    /\ pc[p] = "page"
    /\ \E f \in FileNames :
          /\ session' = [session EXCEPT ![p].filename = f]
          /\ temp_audio' = temp_audio \cup {f}
    /\ Goto(p, "transcribe")
    /\ UNCHANGED <<xvars, store, script, run, calls, setups, nruns, assigned>>

\* model.transcribe(filename) returns and llm(summary_prompt) is called, or it
\* raises and the run ends there
Transcribe(p) ==
    /\ pc[p] = "transcribe"
    /\ \/ /\ Goto(p, "summary")
          /\ IssueCall(p, "transcribe", "summary")
          /\ UNCHANGED session
       \/ Abort(p, "CollaboratorFailure")
    /\ UNCHANGED <<xvars, store, temp_audio, script, run, setups, nruns, assigned>>

\* llm(summary_prompt) returns the summary; llm(name_prompt) is called
Summarize(p) ==
    /\ pc[p] = "summary"
    /\ \/ \E resp \in SummaryResponses :
             /\ session' = [session EXCEPT ![p].summary = resp]
             /\ Goto(p, "names")
             /\ IssueCall(p, "summary", "names")
       \/ Abort(p, "CollaboratorFailure")
    /\ UNCHANGED <<xvars, store, temp_audio, script, run, setups, nruns, assigned>>

\* llm(name_prompt) returns and the two names are extracted; the next prompt
\* is satisfaction_prompt in best.py, sentiment_prompt in main.py
Names(p) ==
    /\ pc[p] = "names"
    /\ \/ Abort(p, "CollaboratorFailure")
       \/ \E resp \in NameResponses :
             \E r \in { IF script[p] = "main"
                        THEN ExtractNamesMain(resp) ELSE ExtractNames(resp) } :
                LET next == IF script[p] = "main" THEN "sentiment" ELSE "satisfaction"
                IN IF r.raised # "none"
                   THEN Abort(p, r.raised)
                   ELSE /\ session' = [session EXCEPT ![p].agent_name = r.agent_name,
                                                      ![p].customer_name = r.customer_name,
                                                      ![p].warned = r.warning]
                        /\ Goto(p, next)
                        /\ IssueCall(p, "names", next)
    /\ UNCHANGED <<xvars, store, temp_audio, script, run, setups, nruns, assigned>>

\* main.py: llm(sentiment_prompt) returns;
\* overall_sentiment = sentiment_result.content.strip()
Sentiment(p) ==
    /\ pc[p] = "sentiment"
    /\ \/ Abort(p, "CollaboratorFailure")
       \/ \E resp \in SentimentResponses :
             /\ session' = [session EXCEPT ![p].overall_sentiment = strip(resp)]
             /\ Goto(p, "satisfaction")
             /\ IssueCall(p, "sentiment", "satisfaction")
    /\ UNCHANGED <<xvars, store, temp_audio, script, run, setups, nruns, assigned>>

\* llm(satisfaction_prompt) returns;
\* customer_satisfied = satisfaction_result.content.strip(); the next prompt is
\* improvements_prompt in best.py, attention_prompt in main.py
Satisfaction(p) ==
    /\ pc[p] = "satisfaction"
    /\ \/ Abort(p, "CollaboratorFailure")
       \/ \E resp \in SatisfactionResponses :
             LET next == IF script[p] = "main" THEN "attention" ELSE "improvements"
             IN /\ session' = [session EXCEPT ![p].customer_satisfied = strip(resp)]
                /\ Goto(p, next)
                /\ IssueCall(p, "satisfaction", next)
    /\ UNCHANGED <<xvars, store, temp_audio, script, run, setups, nruns, assigned>>

\* llm(improvements_prompt) returns;
\* company_improvements = improvements_result.content.strip()
Improvements(p) ==
    /\ pc[p] = "improvements"
    /\ \/ Abort(p, "CollaboratorFailure")
       \/ \E resp \in ImprovementResponses :
             /\ session' = [session EXCEPT ![p].company_improvements = strip(resp)]
             /\ Goto(p, "insert")
             /\ ReturnCall(p, "improvements")
    /\ UNCHANGED <<xvars, store, temp_audio, script, run, setups, nruns, assigned>>

\* main.py: llm(attention_prompt) returns;
\* main_attention_areas = attention_result.content.strip()
Attention(p) ==
    /\ pc[p] = "attention"
    /\ \/ Abort(p, "CollaboratorFailure")
       \/ \E resp \in AttentionResponses :
             /\ session' = [session EXCEPT ![p].main_attention_areas = strip(resp)]
             /\ Goto(p, "insert")
             /\ ReturnCall(p, "attention")
    /\ UNCHANGED <<xvars, store, temp_audio, script, run, setups, nruns, assigned>>

\* the values of the script's INSERT INTO call_reports (...) VALUES (?, ...)
InsertValues(p) ==
    IF script[p] = "main"
    THEN [customer_service_department |-> Unknown,
          agent_name |-> session[p].agent_name,
          customer_name |-> session[p].customer_name,
          summary |-> session[p].summary,
          overall_sentiment |-> session[p].overall_sentiment,
          customer_satisfied |-> session[p].customer_satisfied,
          main_attention_areas |-> session[p].main_attention_areas]
    ELSE [customer_name |-> session[p].customer_name,
          agent_name |-> session[p].agent_name,
          customer_satisfied |-> session[p].customer_satisfied,
          company_improvements |-> session[p].company_improvements]

\* INSERT INTO call_reports (...) VALUES (...); conn.commit(); then
\* llm(response_prompt) is called.  A column the table lacks raises
\* sqlite3.OperationalError, a failed CHECK sqlite3.IntegrityError, and the
\* statement changes nothing.  The overall_sentiment CHECK is in the table
\* main.py created, the only one main.py's INSERT fits.
InsertReport(p) ==
    /\ pc[p] = "insert"
    /\ LET vals == InsertValues(p)
           row == NewRow(columns, vals, run[p])
       IN IF ~(tableExists /\ DOMAIN vals \subseteq columns)
          THEN /\ Abort(p, "OperationalError")
               /\ UNCHANGED <<rows, seq, assigned>>
          ELSE IF ~(/\ CheckSatisfied(row.customer_satisfied)
                    /\ "overall_sentiment" \in columns
                          => CheckSentiment(row.overall_sentiment))
          THEN /\ Abort(p, "IntegrityError")
               /\ UNCHANGED <<rows, seq, assigned>>
          ELSE LET id == NextRowid
               IN /\ rows' = [i \in DOMAIN rows \cup {id} |->
                                 IF i = id THEN row ELSE rows[i]]
                  /\ seq' = id
                  /\ assigned' = assigned \cup {<<id, run[p]>>}
                  /\ Goto(p, "critique")
                  /\ IssueCall(p, "insert", "critique")
                  /\ UNCHANGED session
    /\ UNCHANGED <<xvars, tableExists, columns, temp_audio, script, run, setups, nruns>>

\* llm(response_prompt) returns the alternative responses, shown and not stored
Critique(p) ==
    /\ pc[p] = "critique"
    /\ \/ /\ Goto(p, "remove")
          /\ ReturnCall(p, "critique")
          /\ UNCHANGED session
       \/ Abort(p, "CollaboratorFailure")
    /\ UNCHANGED <<xvars, store, temp_audio, script, run, setups, nruns, assigned>>

\* os.remove(filename), the last statement of the Home page
RemoveFile(p) ==
    /\ pc[p] = "remove"
    /\ IF session[p].filename \in temp_audio
       THEN /\ temp_audio' = Removed(temp_audio, session[p].filename)
            /\ session' = [session EXCEPT ![p] = NoSession]
            /\ issued' = [issued EXCEPT ![p] = <<>>]
            /\ UNCHANGED inflight
            /\ Goto(p, "done")
       ELSE /\ Abort(p, "FileNotFoundError")
            /\ UNCHANGED temp_audio
    /\ UNCHANGED <<xvars, store, script, run, setups, nruns, assigned>>

(***************************************************************************)
(* Scripts run outside the sessions.                                       *)
(***************************************************************************)
\* main.py at start: CREATE TABLE IF NOT EXISTS call_reports with its own
\* columns; with the table there it changes nothing
main_create_database ==
    /\ ~tableExists
    /\ tableExists' = TRUE
    /\ columns' = MainColumns
    /\ UNCHANGED <<xvars, rows, seq, temp_audio, pc, script, run, session, calls,
                   error, setups, nruns, assigned>>

\* data.py: DELETE FROM call_reports; DELETE FROM sqlite_sequence WHERE
\* name='call_reports'; one commit.  Without the table the first DELETE raises
\* and nothing changes.
KeptSeq == seq
ClearedSeq == 0

clear_database ==
    /\ tableExists
    /\ rows' = <<>>
    /\ seq' = ClearedSeq
    /\ UNCHANGED <<xvars, tableExists, columns, temp_audio, pc, script, run, session,
                   calls, error, setups, nruns, assigned>>

Init == InitStore /\ InitNoExtract

Next ==
    \/ \E p \in Procs :
          \/ StartRun(p)
          \/ create_database(p)
          \/ pragma_table_info(p)
          \/ alter_table(p)
          \/ HomeIdle(p)
          \/ ReportsPage(p)
          \/ Upload(p)
          \/ Transcribe(p)
          \/ Summarize(p)
          \/ Names(p)
          \/ Sentiment(p)
          \/ Satisfaction(p)
          \/ Improvements(p)
          \/ Attention(p)
          \/ InsertReport(p)
          \/ Critique(p)
          \/ RemoveFile(p)
    \/ main_create_database
    \/ clear_database

Spec == Init /\ [][Next]_vars

(***************************************************************************)
(* Properties of the store and of the script runs, checked under Spec.     *)
(***************************************************************************)
Facets ==
    {"summary", "names", "sentiment", "satisfaction", "improvements", "attention",
     "critique"}

\* C1: a run's row is in call_reports only once every facet call of the run,
\* the response critique included, has returned; a run that a failed
\* transcription or facet call ended has left no row of its own.
C1_InsertAfterAllFacets ==
    \A p \in Procs :
        /\ pc[p] \in Facets \cup {"transcribe"} =>
              \A i \in DOMAIN rows : rows[i].run # run[p]
        /\ (pc[p] = "failed" /\ error[p].type = "CollaboratorFailure") =>
              \A i \in DOMAIN rows : rows[i].run # run[p]

\* C2: an INSERT into the columns of call_reports whose customer_satisfied is
\* neither 'Yes' nor 'No' ends the run with IntegrityError and leaves rows and
\* sequence as they were; every stored row has customer_satisfied in {Yes, No}.
C2_CheckRejectsInsert ==
    [][ /\ \A p \in Procs :
              (/\ pc[p] = "insert"
               /\ pc'[p] # "insert"
               /\ DOMAIN InsertValues(p) \subseteq columns
               /\ session[p].customer_satisfied \notin {Yes, No})
              => (/\ pc'[p] = "failed"
                  /\ error'[p].type = "IntegrityError"
                  /\ rows' = rows
                  /\ seq' = seq)
        /\ \A i \in DOMAIN rows' : rows'[i].customer_satisfied \in {Yes, No} ]_vars

\* a run whose 'Maybe' was rejected while the table held a row
C2_Witness ==
    \E p \in Procs :
        /\ pc[p] = "failed"
        /\ error[p] = [type |-> "IntegrityError", at |-> "insert"]
        /\ DOMAIN rows # {}

SetupSteps == {"create", "pragma", "alter"}

\* C6: once a session has been through schema setup, a further schema setup
\* of that session changes neither the table nor its column set and raises
\* no error, whichever schema the first one started from.
C6_SetupIdempotent ==
    [][ \A p \in Procs :
           (setups[p] >= 1 /\ pc[p] \in SetupSteps /\ pc'[p] # pc[p])
           => (/\ tableExists' = tableExists
               /\ columns' = columns
               /\ pc'[p] # "failed") ]_vars

\* a second setup completed on the table main.py had created
C6_Witness ==
    \E p \in Procs :
        /\ setups[p] >= 2
        /\ pc[p] = "page"
        /\ columns = MainColumns \cup {"company_improvements"}

\* C7: whatever the interleaving of two sessions' schema setups, neither
\* ends in an error, and when both are through the table has the column set
\* one setup alone produces.
C7_ConcurrentSetupSafe ==
    /\ \A p \in Procs : ~(pc[p] = "failed" /\ error[p].at \in SetupSteps)
    /\ (\A p \in Procs : setups[p] >= 1) =>
          columns \in {BestColumns, MainColumns \cup {"company_improvements"}}

IsAscending(d) == \A i, j \in 1..Len(d) : i < j => d[i].id < d[j].id

\* C8: after a successful INSERT of best.py its Reports query returns the rows in
\* ascending id order, and its last row has the inserted values with id one
\* above the largest id stored before, 1 for an empty table.
C8_InsertThenList ==
    [][ \A p \in Procs :
           (script[p] = "best" /\ pc[p] = "insert" /\ pc'[p] = "critique")
           => LET d == SelectAll(rows')
                  prevMax == IF DOMAIN rows = {} THEN 0 ELSE Max(DOMAIN rows)
              IN /\ Len(d) = Cardinality(DOMAIN rows) + 1
                 /\ IsAscending(d)
                 /\ d[Len(d)] =
                       [id |-> prevMax + 1,
                        customer_name |-> session[p].customer_name,
                        agent_name |-> session[p].agent_name,
                        customer_satisfied |-> session[p].customer_satisfied,
                        company_improvements |-> session[p].company_improvements] ]_vars

\* a second row just inserted behind the first
C8_Witness ==
    \E p \in Procs :
        /\ script[p] = "best"
        /\ pc[p] = "critique"
        /\ DOMAIN rows = {1, 2}
        /\ rows[2].run = run[p]
        /\ rows[1].run # run[p]

\* C9: a step that deletes a row deletes every row and leaves the table and
\* its columns alone, and the first INSERT into the emptied table gets id 1.
C9_ClearResets ==
    [][ /\ (\E i \in DOMAIN rows : i \notin DOMAIN rows')
           => (/\ rows' = <<>>
               /\ tableExists' = tableExists
               /\ columns' = columns)
        /\ (DOMAIN rows = {} /\ DOMAIN rows' # {}) => DOMAIN rows' = {1} ]_vars

\* id 1 given again after clear_database wiped an earlier row
C9_Witness ==
    /\ DOMAIN rows = {1}
    /\ \E a \in assigned : a[2] # rows[1].run

\* C10 as stated: no id is ever given to two different rows, and a stored
\* row never changes.
C10_IdNeverReused ==
    [][ /\ \A a, b \in assigned' : a[1] = b[1] => a[2] = b[2]
        /\ \A i \in DOMAIN rows \cap DOMAIN rows' :
              \A c \in DOMAIN rows[i] : c \in DOMAIN rows'[i] /\ rows'[i][c] = rows[i][c] ]_vars

\* C10 amended: a stored row keeps its id and its values for as long as it
\* exists, and an INSERT never takes the id of a stored row: its id is above
\* every stored id.  (After clear_database ids start again from 1.)
C10_IdStableWhileStored ==
    [][ /\ \A i \in DOMAIN rows \cap DOMAIN rows' :
              \A c \in DOMAIN rows[i] : c \in DOMAIN rows'[i] /\ rows'[i][c] = rows[i][c]
        /\ \A a \in assigned' \ assigned :
              /\ a[1] \notin DOMAIN rows
              /\ \A j \in DOMAIN rows : j < a[1]
              /\ a[1] \in DOMAIN rows'
              /\ rows'[a[1]].run = a[2] ]_vars

\* id 1 belongs to a second row, the first one having been cleared
C10_Witness ==
    \E a, b \in assigned :
        /\ a[1] = b[1]
        /\ a[2] # b[2]
        /\ a[1] \in DOMAIN rows
        /\ rows[a[1]].run = b[2]

\* C11: a schema setup step (create_database, update_database_schema) on an
\* existing table drops and renames no column, keeps every row with its id and
\* every value it had, and keeps the sequence; all it may change is to add
\* company_improvements, which is NULL in every row stored before.
C11_SetupKeepsData ==
    [][ \A p \in Procs :
           (tableExists /\ pc[p] \in SetupSteps /\ pc'[p] # pc[p])
           => (/\ tableExists'
               /\ columns \subseteq columns'
               /\ columns' \ columns \subseteq {"company_improvements"}
               /\ seq' = seq
               /\ DOMAIN rows' = DOMAIN rows
               /\ \A i \in DOMAIN rows :
                     /\ \A c \in DOMAIN rows[i] :
                           c \in DOMAIN rows'[i] /\ rows'[i][c] = rows[i][c]
                     /\ \A c \in DOMAIN rows'[i] \ DOMAIN rows[i] :
                           c = "company_improvements" /\ rows'[i][c] = Null) ]_vars

\* best.py's setup has just added the column to a table that held a row
\* main.py had written
C11_Witness ==
    \E p \in Procs :
        /\ script[p] = "best"
        /\ pc[p] = "page"
        /\ \E i \in DOMAIN rows :
              /\ rows[i].run # run[p]
              /\ DOMAIN rows[i] = (MainColumns \ {"id"}) \cup {"company_improvements", "run"}
              /\ rows[i].summary \in SummaryResponses
              /\ rows[i].overall_sentiment = Positive
              /\ rows[i].company_improvements = Null

\* C12: transcription starts only after an upload, with the uploaded file
\* under temp_audio; a run that uploaded a file ends without an error only
\* through os.remove, after the insert and every facet call returned; and when
\* os.remove is over the file is not under temp_audio.
C12_TempFileScoped ==
    [][ \A p \in Procs :
           /\ (pc'[p] = "transcribe" /\ pc[p] # "transcribe")
              => (/\ pc[p] = "page"
                  /\ session'[p].filename \in FileNames
                  /\ session'[p].filename \in temp_audio')
           /\ (pc'[p] = "done" /\ pc[p] # "done")
              => pc[p] \in {"page", "remove"}
           /\ (pc'[p] = "remove" /\ pc[p] # "remove")
              => (pc[p] = "critique" /\ inflight'[p] = {})
           /\ (pc[p] = "remove" /\ pc'[p] # "remove")
              => session[p].filename \notin temp_audio' ]_vars

\* a run that went through the whole pipeline: its row is stored, its file gone
C12_Witness ==
    \E p \in Procs :
        /\ pc[p] = "done"
        /\ \E i \in DOMAIN rows : rows[i].run = run[p]
        /\ temp_audio = {}

BestOrder == <<"summary", "names", "satisfaction", "improvements", "critique">>
MainOrder ==
    <<"summary", "names", "sentiment", "satisfaction", "attention", "critique">>

IsPrefix(s, t) == Len(s) <= Len(t) /\ \A i \in 1..Len(s) : s[i] = t[i]

\* C13: at every moment of a run at most one LLM call of the run is in flight,
\* it is the call issued last, and the calls issued so far are the beginning of
\* summary, names, satisfaction, improvements, critique (main.py: summary,
\* names, sentiment, satisfaction, attention areas, critique).
C13_OneCallAtATime ==
    \A p \in Procs :
        /\ Cardinality(inflight[p]) <= 1
        /\ inflight[p] # {} =>
              (issued[p] # <<>> /\ inflight[p] = {issued[p][Len(issued[p])]})
        /\ IsPrefix(issued[p], IF script[p] = "main" THEN MainOrder ELSE BestOrder)

\* a best.py run whose five calls have all gone out and come back, while the
\* other session has a call in flight
C13_Witness ==
    \E p, q \in Procs :
        /\ script[p] = "best"
        /\ pc[p] = "remove"
        /\ issued[p] = BestOrder
        /\ inflight[p] = {}
        /\ Cardinality(inflight[q]) = 1

(***************************************************************************)
(* Name extraction on its own: every response of Givens, both scripts.     *)
(***************************************************************************)
InitExtract ==
    /\ given \in Givens
    /\ content = TextOf(given)
    /\ extractedBy = "none"
    /\ extracted = NoResult
    /\ InitStore

ExtractBest ==
    /\ extractedBy = "none"
    /\ extractedBy' = "best"
    /\ extracted' = ExtractNames(content)
    /\ UNCHANGED <<given, content>>
    /\ UNCHANGED svars

ExtractMain ==
    /\ extractedBy = "none"
    /\ extractedBy' = "main"
    /\ extracted' = ExtractNamesMain(content)
    /\ UNCHANGED <<given, content>>
    /\ UNCHANGED svars

NextExtract == ExtractBest \/ ExtractMain

SpecExtract == InitExtract /\ [][NextExtract]_vars

(***************************************************************************)
(* Properties of name extraction, checked under SpecExtract.               *)
(***************************************************************************)
\* t is s without its leading and trailing whitespace
IsTrimOf(t, s) ==
    \E i \in 0..Len(s) :
        /\ i + Len(t) <= Len(s)
        /\ SubSeq(s, i + 1, i + Len(t)) = t
        /\ \A k \in 1..i : s[k] \in {" ", "\n"}
        /\ \A k \in (i + Len(t) + 1)..Len(s) : s[k] \in {" ", "\n"}
        /\ t # <<>> => (t[1] \notin {" ", "\n"} /\ t[Len(t)] \notin {" ", "\n"})

ResolvesGivenNames ==
    /\ extracted.raised = "none"
    /\ IsTrimOf(extracted.agent_name, given.A)
    /\ IsTrimOf(extracted.customer_name, given.C)

\* C3 as stated: wherever the well-formed object stands in the response,
\* best.py / test2.py resolve the two names to A and C, trimmed.
C3_EmbeddedAnywhere ==
    (extractedBy = "best" /\ given.kind = "wellformed") => ResolvesGivenNames

HasChar(s, c) == \E i \in 1..Len(s) : s[i] = c

\* C3 amended: when no '{' stands before the object and no '}' inside it
\* before its closing brace, the two names resolve to A and C, trimmed,
\* whatever follows the object.
C3_FirstBlockIsTheObject ==
    (/\ extractedBy = "best"
     /\ given.kind = "wellformed"
     /\ ~HasChar(given.pre, "{")
     /\ ~HasChar(given.A, "}")
     /\ ~HasChar(given.C, "}"))
    => ResolvesGivenNames

\* 'x' before a two-line object and '}' after it: " S" resolves to "S"
C3_Witness ==
    /\ extractedBy = "best"
    /\ given.kind = "wellformed"
    /\ given.pre = <<"x">>
    /\ given.suf = <<"}">>
    /\ given.sep = <<"\n">>
    /\ given.A = <<" ", "S">>
    /\ extracted.agent_name = <<"S">>
    /\ extracted.customer_name = <<>>

NoBlock(s) == ~\E i, j \in 1..Len(s) : i < j /\ s[i] = "{" /\ s[j] = "}"
FirstBlockUnparsable(s) ==
    /\ re_search(s).found
    /\ ~json_loads(SubSeq(s, re_search(s).start, re_search(s).end)).ok

\* C4: a response with no {...} block, or whose first block is not JSON,
\* gives ("Unknown", "Unknown") and the warning with the raw response.
C4_FallbackWithDiagnostic ==
    (extractedBy = "best" /\ (NoBlock(content) \/ FirstBlockUnparsable(content)))
    => (/\ extracted.raised = "none"
        /\ extracted.agent_name = Unknown
        /\ extracted.customer_name = Unknown
        /\ extracted.warning)

\* C5: name extraction raises nothing, whatever the response.
C5_ExtractionTotal ==
    extractedBy # "none" => extracted.raised = "none"

====
